---- MODULE Spec2Model ----
(***************************************************************************)
(* Verification model of sync_prim::mutex: the standard mutex MutexImpl    *)
(* (Mutex.h) and the fair hand-off mutex FairMutexImpl with its            *)
(* DeadlockDetector (FairMutex.h).                                         *)
(*                                                                         *)
(* Granularity: one action per atomic access to shared memory (a load, a   *)
(* CAS, an exchange, a parking-lot call).  folly::ParkingLot runs park's   *)
(* validate+enqueue and unpark's filter scan under the bucket lock, so     *)
(* each parking-lot call is one step.  A "load; compare_exchange; retry"   *)
(* loop is taken at its linearisation point: one step per iteration that   *)
(* either succeeds or leaves the state as it was.                          *)
(***************************************************************************)
EXTENDS Integers, Sequences, FiniteSets, TLC

\* ThreadRegistry::MAX_THREADS, instantiated with three threads.
MAX_THREADS == 3

Threads == 0 .. (MAX_THREADS - 1)

\* The mutex objects of a run (their addresses); NULL is nullptr.
NULL == 0

Mutexes == {1, 2}

\* ------------------------------------------------------------------------
\* Standard mutex: MutexImpl<EnableDeadlockDetection>::LockWord (Mutex.h)
\* ------------------------------------------------------------------------

\* enum class LockState : int8_t { LS_UNLOCKED, LS_LOCKED, LS_CONTENTED }
LS_UNLOCKED == 0

LS_LOCKED == 1

LS_CONTENTED == 2

\* sizeof(thread_id_t) * CHAR_BIT, reduced to the narrowest width that keeps
\* every thread id below M_UNLOCKED.
THREAD_ID_BITS == 3

M_CONTENDED_MASK == 2 ^ (THREAD_ID_BITS - 1)

\* -1 & ~M_CONTENDED_MASK: every bit but the high one.
M_UNLOCKED == (2 ^ THREAD_ID_BITS - 1) - M_CONTENDED_MASK

Mutex_get_unlocked_word(dds) == IF dds THEN M_UNLOCKED ELSE LS_UNLOCKED

Mutex_is_locked(dds, w) == w # Mutex_get_unlocked_word(dds)

\* (word & M_CONTENDED_MASK) == 0 in deadlock-safe mode: true when the high
\* bit is CLEAR.
Mutex_is_lock_contented(dds, w) ==
    IF dds THEN (w \div M_CONTENDED_MASK) % 2 = 0 ELSE w = LS_CONTENTED

\* word & ~M_CONTENDED_MASK
Mutex_as_uncontented_word(dds, w) ==
    IF dds THEN w - ((w \div M_CONTENDED_MASK) % 2) * M_CONTENDED_MASK
    ELSE LS_LOCKED

\* ThreadRegistry::ThreadID() | M_CONTENDED_MASK: the CALLER's id.
Mutex_get_contented_word(dds, t) ==
    IF dds THEN t + M_CONTENDED_MASK ELSE LS_CONTENTED

Mutex_get_lock_word(dds, t) == IF dds THEN t ELSE LS_LOCKED

VARIABLES
    \* ---- standard mutex ----
    m_dds,               \* EnableDeadlockDetection of MutexImpl
    m_word,              \* [Mutexes -> word]       std::atomic<LockWord> word
    m_lot,               \* [Mutexes -> Seq(tid)]   parkinglot, per key
    thread_waiting_on,   \* [Threads -> mutex/NULL]
    dead_lock_verify_mutex, \* owner of the std::mutex, or MAX_THREADS if free
    m_pc,                \* [Threads -> position]
    m_this,              \* [Threads -> mutex/NULL] the mutex of the call
    m_waiters,           \* [Threads -> [Threads -> mutex/NULL]] check_deadlock's map
    m_cursor,            \* [Threads -> mutex/NULL] detect_deadlock's waiting_on
    m_lock_holder,       \* [Threads -> tid]        detect_deadlock's lock_holder
    m_verify_left,       \* [Threads -> SUBSET Threads] entries verify has yet to visit
    m_cs,                \* [Threads -> SUBSET Mutexes] critical sections entered
    m_cyc,               \* history: the threads of the latest wait-for cycle
                         \* whose lock() of that cycle is still under way
    m_victims            \* history: those of them whose lock() of that cycle
                         \* returned DEADLOCKED

m_vars == <<m_dds, m_word, m_lot, thread_waiting_on, dead_lock_verify_mutex,
            m_pc, m_this, m_waiters, m_cursor, m_lock_holder, m_verify_left,
            m_cs, m_cyc, m_victims>>

\* ------------------------------------------------------------------------
\* Fair mutex: FairMutexImpl<EnableDeadlockDetection> (FairMutex.h)
\* ------------------------------------------------------------------------

\* LockWord::INVALID_HOLDER = ThreadRegistry::MAX_THREADS
INVALID_HOLDER == MAX_THREADS

\* ThreadRegistry::INVALID_THREADID
INVALID_THREADID == MAX_THREADS

\* std::uint32_t num_waiters, reduced to a width TLC's integers hold.
NUM_WAITERS_BITS == 8

\* Waits announced in a run: lock() is not called in deadlock-safe mode once
\* this many waits have been announced or may yet be by a lock() under way.
MaxWaits == 3

\* Calls of detect_deadlocks() in a run.
MaxDetect == 1

Fair_get_unlocked_word == [holder |-> INVALID_HOLDER, num_waiters |-> 0]

Fair_get_lock_word(t) == [holder |-> t, num_waiters |-> 0]

Fair_is_locked(w) == w.holder # INVALID_HOLDER

Fair_is_locked_by_me(w, t) == w.holder = t

Fair_has_waiters(w) == w.num_waiters # 0

\* Faulty variant of Fair_transfer_lock: the holder field is left as it was.
C2_Faulty_transfer_lock(w, tid) ==
    [holder |-> w.holder, num_waiters |-> (w.num_waiters - 1) % (2 ^ NUM_WAITERS_BITS)]

\* Faulty variant of Fair_increment_num_waiters: the count is left as it was.
C7_Faulty_increment_num_waiters(w) == w

\* Faulty variant of Fair_decrement_num_waiters: the holder field is cleared.
C13_Faulty_decrement_num_waiters(w) ==
    [holder |-> INVALID_HOLDER,
     num_waiters |-> (w.num_waiters - 1) % (2 ^ NUM_WAITERS_BITS)]

\* Faulty variant of Fair_transfer_lock: num_waiters is left as it was.
C17_Faulty_transfer_lock(w, tid) ==
    [holder |-> tid, num_waiters |-> w.num_waiters]

Fair_transfer_lock(w, tid) ==
    [holder |-> tid, num_waiters |-> (w.num_waiters - 1) % (2 ^ NUM_WAITERS_BITS)]

Fair_increment_num_waiters(w) ==
    [holder |-> w.holder, num_waiters |-> (w.num_waiters + 1) % (2 ^ NUM_WAITERS_BITS)]

Fair_decrement_num_waiters(w) ==
    [holder |-> w.holder, num_waiters |-> (w.num_waiters - 1) % (2 ^ NUM_WAITERS_BITS)]

VARIABLES
    \* ---- fair mutex ----
    f_dds,               \* EnableDeadlockDetection of FairMutexImpl
    f_word,              \* [Mutexes -> LockWord]   std::atomic<LockWord> word
    f_lot,               \* [Mutexes -> Seq(WaitNodeData)] parkinglot, per key
    is_dead_locked,      \* [Threads -> BOOLEAN]    park's local, behind WaitNodeData
    waiting_on,          \* [Threads -> mutex/NULL] global_wait_info[t].waiting_on
    wait_start_time,     \* [Threads -> Nat]        ... .wait_start_time
    current_wait_token,  \* [Threads -> Nat]        ... .current_wait_token
    f_pc,                \* [Threads -> position]
    f_this,              \* [Threads -> mutex/NULL] the mutex of the call
    f_res,               \* [Threads -> "Skip"/"Unpark"/"None"] parkinglot.park's result
    f_cs,                \* [Threads -> SUBSET Mutexes] critical sections entered
    reg_order,           \* history: [Mutexes -> Seq(tid)], waiters in the order
                         \* of their increment_num_waiters CAS
    cycle_seen,          \* history: a wait-for cycle has existed
    \* ---- DeadlockDetector (one caller of detect_deadlocks) ----
    d_pc,                \* position
    waiter_id,           \* gather: the slot scanned
    d_lock,              \* gather: waiting_on read from the slot
    d_token,             \* gather: current_wait_token read from the slot
    waiters,             \* unordered_map<thread_id_t, WaiterInfo>, a function
                         \* on the keys present
    holders,             \* unordered_map<FairDeadlockSafeMutex *, thread_id_t>
    d_left,              \* run: keys of waiters the for loop has yet to visit
    lockcycle,           \* the map detect_lock_cycle returned
    sel_left,            \* select_waiter: keys of lockcycle yet to visit
    latest_time,         \* select_waiter
    latest_waiter,       \* select_waiter, then verify_lock_cycle's waiter
    num_deadlocks,       \* detect_deadlocks
    d_calls,             \* calls of detect_deadlocks so far
    d_start_cycle,       \* history: the waits <<tid, wait_token>> that were
                         \* parked in a wait-for cycle when detect_deadlocks began
    d_flagged            \* history: the waits this call has flagged

f_vars == <<f_dds, f_word, f_lot, is_dead_locked, waiting_on, wait_start_time,
            current_wait_token, f_pc, f_this, f_res, f_cs, reg_order, cycle_seen>>

d_vars == <<d_pc, waiter_id, d_lock, d_token, waiters, holders, d_left,
            lockcycle, sel_left, latest_time, latest_waiter, num_deadlocks,
            d_calls, d_start_cycle, d_flagged>>

vars == <<m_vars, f_vars, d_vars>>

NoWaiters == [u \in Threads |-> NULL]

\* A thread outside every call ("dl": lock() has just returned DEADLOCKED).
M_Idle(t) == m_pc[t] \in {"idle", "dl"}

M_Init ==
    /\ m_dds \in BOOLEAN
    /\ m_word = [m \in Mutexes |-> Mutex_get_unlocked_word(m_dds)]
    /\ m_lot = [m \in Mutexes |-> <<>>]
    /\ thread_waiting_on = [t \in Threads |-> NULL]
    /\ dead_lock_verify_mutex = MAX_THREADS
    /\ m_pc = [t \in Threads |-> "idle"]
    /\ m_this = [t \in Threads |-> NULL]
    /\ m_waiters = [t \in Threads |-> NoWaiters]
    /\ m_cursor = [t \in Threads |-> NULL]
    /\ m_lock_holder = [t \in Threads |-> 0]
    /\ m_verify_left = [t \in Threads |-> {}]
    /\ m_cs = [t \in Threads |-> {}]
    /\ m_cyc = {}
    /\ m_victims = {}

\* A thread inside lock().
M_InLock(t) == m_pc[t] \notin {"idle", "dl", "unpark"}

\* t is inside lock() on a mutex that h has taken.
M_WaitsFor(t, h) == M_InLock(t) /\ h # t /\ m_this[t] \in m_cs[h]

\* u is within n wait-for edges of t.
RECURSIVE M_Reaches(_, _, _)
M_Reaches(t, u, n) ==
    /\ n > 0
    /\ \E h \in Threads :
          M_WaitsFor(t, h) /\ (h = u \/ M_Reaches(h, u, n - 1))

\* t is on a wait-for cycle.
M_OnCycle(t) == M_Reaches(t, t, MAX_THREADS)

\* History of the latest wait-for cycle.  lock() of t is entered and does not
\* return at once: the history begins anew when that puts t on a cycle.
M_History_enter(t) ==
    IF M_OnCycle(t)'
    THEN /\ m_cyc' = {u \in Threads : M_OnCycle(u)'}
         /\ m_victims' = {}
    ELSE UNCHANGED <<m_cyc, m_victims>>

\* lock() of t returns LOCKED: t leaves the history.  The victims are kept
\* while a lock() of the cycle is under way.
M_History_locked(t) ==
    /\ m_cyc' = m_cyc \ {t}
    /\ m_victims' = IF m_cyc \subseteq {t} THEN {} ELSE m_victims

\* lock() of t returns DEADLOCKED: t is a victim if this lock() is of the
\* latest cycle.
M_History_deadlocked(t) ==
    /\ m_cyc' = m_cyc \ {t}
    /\ m_victims' = IF m_cyc \subseteq {t} THEN {}
                    ELSE m_victims \cup ({t} \cap m_cyc)

\* Faulty variant of Mutex_try_lock_ok: the CAS ignores the expected value.
C1_Faulty_try_lock_ok(m) == TRUE

\* Faulty variant of Mutex_unlock_wakes: unlock() never unparks.
C5_Faulty_unlock_wakes(old) == FALSE

\* try_lock(): CAS(unlocked -> get_lock_word()).
Mutex_try_lock_ok(m) == m_word[m] = Mutex_get_unlocked_word(m_dds)

\* lock() entered: the first try_lock of `while (!try_lock())`.
M_lock(t, m) ==
    /\ M_Idle(t)
    /\ m \notin m_cs[t]
    /\ IF Mutex_try_lock_ok(m)
       THEN /\ m_word' = [m_word EXCEPT ![m] = Mutex_get_lock_word(m_dds, t)]
            /\ m_cs' = [m_cs EXCEPT ![t] = @ \cup {m}]
            /\ m_pc' = [m_pc EXCEPT ![t] = "idle"]
            /\ m_this' = [m_this EXCEPT ![t] = NULL]
            /\ UNCHANGED <<m_cyc, m_victims>>
       ELSE /\ m_pc' = [m_pc EXCEPT ![t] = "upa"]
            /\ m_this' = [m_this EXCEPT ![t] = m]
            /\ UNCHANGED <<m_word, m_cs>>
            /\ M_History_enter(t)
    /\ UNCHANGED <<f_vars, d_vars, m_dds, m_lot, thread_waiting_on, dead_lock_verify_mutex,
                   m_waiters, m_cursor, m_lock_holder, m_verify_left>>

\* lock(): try_lock again after uncontended_path_available() returned true.
M_lock_retry(t) ==
    /\ m_pc[t] = "try"
    /\ LET m == m_this[t] IN
       IF Mutex_try_lock_ok(m)
       THEN /\ m_word' = [m_word EXCEPT ![m] = Mutex_get_lock_word(m_dds, t)]
            /\ m_cs' = [m_cs EXCEPT ![t] = @ \cup {m}]
            /\ m_pc' = [m_pc EXCEPT ![t] = "idle"]
            /\ m_this' = [m_this EXCEPT ![t] = NULL]
            /\ M_History_locked(t)
       ELSE /\ m_pc' = [m_pc EXCEPT ![t] = "upa"]
            /\ UNCHANGED <<m_word, m_cs, m_this>>
            /\ UNCHANGED <<m_cyc, m_victims>>
    /\ UNCHANGED <<f_vars, d_vars, m_dds, m_lot, thread_waiting_on, dead_lock_verify_mutex,
                   m_waiters, m_cursor, m_lock_holder, m_verify_left>>

\* The public try_lock(), called on its own.
M_try_lock(t, m) ==
    /\ M_Idle(t)
    /\ m \notin m_cs[t]
    /\ m_pc' = [m_pc EXCEPT ![t] = "idle"]
    /\ IF Mutex_try_lock_ok(m)
       THEN /\ m_word' = [m_word EXCEPT ![m] = Mutex_get_lock_word(m_dds, t)]
            /\ m_cs' = [m_cs EXCEPT ![t] = @ \cup {m}]
       ELSE UNCHANGED <<m_word, m_cs>>
    /\ UNCHANGED <<f_vars, d_vars, m_dds, m_lot, thread_waiting_on, dead_lock_verify_mutex,
                   m_this, m_waiters, m_cursor, m_lock_holder, m_verify_left,
                   m_cyc, m_victims>>

\* uncontended_path_available(): one iteration of its loop.
M_uncontended_path_available(t) ==
    /\ m_pc[t] = "upa"
    /\ LET m == m_this[t]
           old == m_word[m]
       IN  IF ~Mutex_is_locked(m_dds, old)
           THEN /\ m_pc' = [m_pc EXCEPT ![t] = "try"]
                /\ UNCHANGED m_word
           ELSE IF Mutex_is_lock_contented(m_dds, old)
           THEN /\ m_pc' = [m_pc EXCEPT ![t] = "lc_try"]
                /\ UNCHANGED m_word
           ELSE /\ m_word' = [m_word EXCEPT ![m] = Mutex_get_contented_word(m_dds, t)]
                /\ m_pc' = [m_pc EXCEPT ![t] = "lc_try"]
    /\ UNCHANGED <<f_vars, d_vars, m_dds, m_lot, thread_waiting_on, dead_lock_verify_mutex,
                   m_this, m_waiters, m_cursor, m_lock_holder, m_verify_left,
                   m_cs, m_cyc, m_victims>>

\* lock_contended(): try_lock_contended(), CAS(unlocked -> get_contented_word()).
M_try_lock_contended(t) ==
    /\ m_pc[t] = "lc_try"
    /\ LET m == m_this[t] IN
       IF m_word[m] = Mutex_get_unlocked_word(m_dds)
       THEN /\ m_word' = [m_word EXCEPT ![m] = Mutex_get_contented_word(m_dds, t)]
            /\ m_cs' = [m_cs EXCEPT ![t] = @ \cup {m}]
            /\ m_pc' = [m_pc EXCEPT ![t] = "idle"]
            /\ m_this' = [m_this EXCEPT ![t] = NULL]
            /\ M_History_locked(t)
       ELSE /\ m_pc' = [m_pc EXCEPT ![t] = IF m_dds THEN "announce" ELSE "park"]
            /\ UNCHANGED <<m_word, m_cs, m_this>>
            /\ UNCHANGED <<m_cyc, m_victims>>
    /\ UNCHANGED <<f_vars, d_vars, m_dds, m_lot, thread_waiting_on, dead_lock_verify_mutex,
                   m_waiters, m_cursor, m_lock_holder, m_verify_left>>

\* park(), deadlock-safe: announce_wait().
M_announce_wait(t) ==
    /\ m_pc[t] = "announce"
    /\ thread_waiting_on' = [thread_waiting_on EXCEPT ![t] = m_this[t]]
    /\ m_pc' = [m_pc EXCEPT ![t] = "park"]
    /\ UNCHANGED <<f_vars, d_vars, m_dds, m_word, m_lot, dead_lock_verify_mutex, m_this,
                   m_waiters, m_cursor, m_lock_holder, m_verify_left, m_cs,
                   m_cyc, m_victims>>

\* park(): parkinglot.park / park_for with validate = is_lock_contented().
\* Skip (validate false) returns at once.
M_park(t) ==
    /\ m_pc[t] = "park"
    /\ LET m == m_this[t] IN
       IF Mutex_is_lock_contented(m_dds, m_word[m])
       THEN /\ m_lot' = [m_lot EXCEPT ![m] = Append(@, t)]
            /\ m_pc' = [m_pc EXCEPT ![t] = "parked"]
       ELSE /\ m_pc' = [m_pc EXCEPT ![t] = IF m_dds THEN "denounce" ELSE "lc_try"]
            /\ UNCHANGED m_lot
    /\ UNCHANGED <<f_vars, d_vars, m_dds, m_word, thread_waiting_on, dead_lock_verify_mutex,
                   m_this, m_waiters, m_cursor, m_lock_holder, m_verify_left,
                   m_cs, m_cyc, m_victims>>

RemoveTid(q, t) == SelectSeq(q, LAMBDA x : x # t)

\* park_for's DEADLOCK_DETECT_TIMEOUT fires: the waiter leaves the lot and
\* check_deadlock() starts (waiters[me] = this).
M_park_timeout(t) ==
    /\ m_dds
    /\ m_pc[t] = "parked"
    /\ m_lot' = [m_lot EXCEPT ![m_this[t]] = RemoveTid(@, t)]
    /\ m_waiters' = [m_waiters EXCEPT ![t] = [NoWaiters EXCEPT ![t] = m_this[t]]]
    /\ m_cursor' = [m_cursor EXCEPT ![t] = m_this[t]]
    /\ m_pc' = [m_pc EXCEPT ![t] = "cd_load"]
    /\ UNCHANGED <<f_vars, d_vars, m_dds, m_word, thread_waiting_on, dead_lock_verify_mutex,
                   m_this, m_lock_holder, m_verify_left, m_cs, m_cyc, m_victims>>

\* detect_deadlock: lock_holder = waiting_on->word.load().as_uncontented_word()
M_detect_load(t) ==
    /\ m_pc[t] = "cd_load"
    /\ LET h == Mutex_as_uncontented_word(m_dds, m_word[m_cursor[t]]) IN
       IF ~Mutex_is_locked(m_dds, h)
       THEN /\ m_pc' = [m_pc EXCEPT ![t] = "denounce"]
            /\ m_waiters' = [m_waiters EXCEPT ![t] = NoWaiters]
            /\ m_cursor' = [m_cursor EXCEPT ![t] = NULL]
            /\ UNCHANGED m_lock_holder
       ELSE /\ m_lock_holder' = [m_lock_holder EXCEPT ![t] = h]
            /\ m_pc' = [m_pc EXCEPT ![t] = "cd_read"]
            /\ UNCHANGED <<m_waiters, m_cursor>>
    /\ UNCHANGED <<f_vars, d_vars, m_dds, m_word, m_lot, thread_waiting_on,
                   dead_lock_verify_mutex, m_this, m_verify_left, m_cs,
                   m_cyc, m_victims>>

\* detect_deadlock: waiting_on = thread_waiting_on[lock_holder], and the tests
\* that follow it.
M_detect_follow(t) ==
    /\ m_pc[t] = "cd_read"
    /\ LET h == m_lock_holder[t]
           w == thread_waiting_on[h]
       IN  IF w = NULL
           THEN /\ m_pc' = [m_pc EXCEPT ![t] = "denounce"]
                /\ m_waiters' = [m_waiters EXCEPT ![t] = NoWaiters]
                /\ m_cursor' = [m_cursor EXCEPT ![t] = NULL]
           ELSE IF m_waiters[t][h] # NULL
           THEN /\ m_pc' = [m_pc EXCEPT ![t] = "v_lock"]
                /\ m_cursor' = [m_cursor EXCEPT ![t] = NULL]
                /\ UNCHANGED m_waiters
           ELSE /\ m_waiters' = [m_waiters EXCEPT ![t][h] = w]
                /\ m_cursor' = [m_cursor EXCEPT ![t] = w]
                /\ m_pc' = [m_pc EXCEPT ![t] = "cd_load"]
    /\ m_lock_holder' = [m_lock_holder EXCEPT ![t] = 0]
    /\ UNCHANGED <<f_vars, d_vars, m_dds, m_word, m_lot, thread_waiting_on,
                   dead_lock_verify_mutex, m_this, m_verify_left, m_cs,
                   m_cyc, m_victims>>

\* verify_deadlock: std::lock_guard on dead_lock_verify_mutex.
M_verify_lock(t) ==
    /\ m_pc[t] = "v_lock"
    /\ dead_lock_verify_mutex = MAX_THREADS
    /\ dead_lock_verify_mutex' = t
    /\ m_verify_left' = [m_verify_left EXCEPT ![t] =
                            {u \in Threads : m_waiters[t][u] # NULL}]
    /\ m_pc' = [m_pc EXCEPT ![t] = "v_check"]
    /\ UNCHANGED <<f_vars, d_vars, m_dds, m_word, m_lot, thread_waiting_on, m_this, m_waiters,
                   m_cursor, m_lock_holder, m_cs, m_cyc, m_victims>>

\* verify_deadlock: one entry of `for (const auto &waiter : waiters)`, in the
\* unordered_map's order; a mismatch returns false and drops the lock_guard.
M_verify_check(t) ==
    /\ m_pc[t] = "v_check"
    /\ \E u \in m_verify_left[t] :
          IF m_waiters[t][u] # thread_waiting_on[u]
          THEN /\ m_pc' = [m_pc EXCEPT ![t] = "denounce"]
               /\ m_verify_left' = [m_verify_left EXCEPT ![t] = {}]
               /\ m_waiters' = [m_waiters EXCEPT ![t] = NoWaiters]
               /\ dead_lock_verify_mutex' = MAX_THREADS
          ELSE /\ m_verify_left' = [m_verify_left EXCEPT ![t] = @ \ {u}]
               /\ m_pc' = [m_pc EXCEPT ![t] =
                              IF m_verify_left[t] = {u} THEN "v_denounce"
                              ELSE "v_check"]
               /\ UNCHANGED <<m_waiters, dead_lock_verify_mutex>>
    /\ UNCHANGED <<f_vars, d_vars, m_dds, m_word, m_lot, thread_waiting_on, m_this, m_cursor,
                   m_lock_holder, m_cs, m_cyc, m_victims>>

\* verify_deadlock confirmed: denounce_wait(), return true; park() returns
\* true and lock_contended() returns DEADLOCKED.
M_verify_confirm(t) ==
    /\ m_pc[t] = "v_denounce"
    /\ thread_waiting_on' = [thread_waiting_on EXCEPT ![t] = NULL]
    /\ dead_lock_verify_mutex' = MAX_THREADS
    /\ m_waiters' = [m_waiters EXCEPT ![t] = NoWaiters]
    /\ m_pc' = [m_pc EXCEPT ![t] = "dl"]
    /\ UNCHANGED <<f_vars, d_vars, m_dds, m_word, m_lot, m_this, m_cursor, m_lock_holder,
                   m_verify_left, m_cs>>
    /\ M_History_deadlocked(t)

\* park(): denounce_wait(); return false (back to try_lock_contended).
M_denounce_wait(t) ==
    /\ m_pc[t] = "denounce"
    /\ thread_waiting_on' = [thread_waiting_on EXCEPT ![t] = NULL]
    /\ m_pc' = [m_pc EXCEPT ![t] = "lc_try"]
    /\ UNCHANGED <<f_vars, d_vars, m_dds, m_word, m_lot, dead_lock_verify_mutex, m_this,
                   m_waiters, m_cursor, m_lock_holder, m_verify_left, m_cs,
                   m_cyc, m_victims>>

\* unlock(): `if (old.is_lock_contented())` guards the unpark.
Mutex_unlock_wakes(old) == Mutex_is_lock_contented(m_dds, old)

\* unlock(): old = word.exchange(get_unlocked_word()).
M_unlock(t, m) ==
    /\ M_Idle(t)
    /\ m \in m_cs[t]
    /\ m_word' = [m_word EXCEPT ![m] = Mutex_get_unlocked_word(m_dds)]
    /\ m_cs' = [m_cs EXCEPT ![t] = @ \ {m}]
    /\ IF Mutex_unlock_wakes(m_word[m])
       THEN /\ m_pc' = [m_pc EXCEPT ![t] = "unpark"]
            /\ m_this' = [m_this EXCEPT ![t] = m]
       ELSE /\ m_pc' = [m_pc EXCEPT ![t] = "idle"]
            /\ m_this' = [m_this EXCEPT ![t] = NULL]
    /\ UNCHANGED <<f_vars, d_vars, m_dds, m_lot, thread_waiting_on, dead_lock_verify_mutex,
                   m_waiters, m_cursor, m_lock_holder, m_verify_left,
                   m_cyc, m_victims>>

\* unlock(): parkinglot.unpark(this, RemoveBreak): the first waiter, if any.
M_unpark(t) ==
    /\ m_pc[t] = "unpark"
    /\ LET m == m_this[t] IN
       IF m_lot[m] = <<>>
       THEN /\ m_pc' = [m_pc EXCEPT ![t] = "idle"]
            /\ UNCHANGED m_lot
       ELSE /\ m_lot' = [m_lot EXCEPT ![m] = Tail(@)]
            /\ m_pc' = [m_pc EXCEPT ![t] = "idle",
                                    ![Head(m_lot[m])] =
                                        IF m_dds THEN "denounce" ELSE "lc_try"]
    /\ m_this' = [m_this EXCEPT ![t] = NULL]
    /\ UNCHANGED <<f_vars, d_vars, m_dds, m_word, thread_waiting_on, dead_lock_verify_mutex,
                   m_waiters, m_cursor, m_lock_holder, m_verify_left, m_cs,
                   m_cyc, m_victims>>

\* ------------------------------------------------------------------------
\* Fair mutex: lock(), try_lock(), unlock()
\* ------------------------------------------------------------------------

Max(S) == CHOOSE x \in S : \A y \in S : y <= x

\* A thread outside every call ("dl": lock() has just returned DEADLOCKED).
F_Idle(t) == f_pc[t] \in {"idle", "dl"}

\* A thread inside lock().
F_InLock(t) ==
    f_pc[t] \in {"try", "inc", "ann_time", "ann_lock", "ann_token", "park",
                 "parked", "denounce", "dec"}

\* The threads whose WaitNodeData is in the lot under key m.
F_Parked(m) == {f_lot[m][i].tid : i \in 1 .. Len(f_lot[m])}

\* A wait-for cycle: threads inside lock(), each on a mutex whose holder is the
\* next of them.
WaitCycle ==
    \E C \in SUBSET Threads :
        /\ C # {}
        /\ \A t \in C : /\ F_InLock(t)
                        /\ f_word[f_this[t]].holder \in C \ {t}

RECURSIVE SumTokens(_)
SumTokens(S) ==
    IF S = {} THEN 0
    ELSE LET t == CHOOSE x \in S : TRUE
         IN  current_wait_token[t] + SumTokens(S \ {t})

\* Wait tokens drawn, and those a lock() under way may still draw.
WaitsDrawn ==
    SumTokens(Threads)
    + Cardinality({t \in Threads :
                     f_pc[t] \in {"try", "inc", "ann_time", "ann_lock",
                                  "ann_token"}})

F_History == cycle_seen' = (cycle_seen \/ WaitCycle')

F_Init ==
    /\ f_dds \in BOOLEAN
    /\ f_word = [m \in Mutexes |-> Fair_get_unlocked_word]
    /\ f_lot = [m \in Mutexes |-> <<>>]
    /\ is_dead_locked = [t \in Threads |-> FALSE]
    /\ waiting_on = [t \in Threads |-> NULL]
    /\ wait_start_time = [t \in Threads |-> 0]
    /\ current_wait_token = [t \in Threads |-> 0]
    /\ f_pc = [t \in Threads |-> "idle"]
    /\ f_this = [t \in Threads |-> NULL]
    /\ f_res = [t \in Threads |-> "None"]
    /\ f_cs = [t \in Threads |-> {}]
    /\ reg_order = [m \in Mutexes |-> <<>>]
    /\ cycle_seen = FALSE

\* try_lock(): CAS(get_unlocked_word() -> get_lock_word()).
Fair_try_lock_ok(m) == f_word[m] = Fair_get_unlocked_word

\* lock() entered: the first try_lock() of its loop.
F_lock(t, m) ==
    /\ F_Idle(t)
    /\ m \notin f_cs[t]
    /\ f_dds => WaitsDrawn < MaxWaits
    /\ IF Fair_try_lock_ok(m)
       THEN /\ f_word' = [f_word EXCEPT ![m] = Fair_get_lock_word(t)]
            /\ f_cs' = [f_cs EXCEPT ![t] = @ \cup {m}]
            /\ f_pc' = [f_pc EXCEPT ![t] = "idle"]
            /\ f_this' = [f_this EXCEPT ![t] = NULL]
       ELSE /\ f_pc' = [f_pc EXCEPT ![t] = "inc"]
            /\ f_this' = [f_this EXCEPT ![t] = m]
            /\ UNCHANGED <<f_word, f_cs>>
    /\ UNCHANGED <<m_vars, d_vars, f_dds, f_lot, is_dead_locked, waiting_on,
                   wait_start_time, current_wait_token, f_res, reg_order>>
    /\ F_History

\* lock(): try_lock() again after park() returned PARKRES_RETRY.
F_lock_retry(t) ==
    /\ f_pc[t] = "try"
    /\ LET m == f_this[t] IN
       IF Fair_try_lock_ok(m)
       THEN /\ f_word' = [f_word EXCEPT ![m] = Fair_get_lock_word(t)]
            /\ f_cs' = [f_cs EXCEPT ![t] = @ \cup {m}]
            /\ f_pc' = [f_pc EXCEPT ![t] = "idle"]
            /\ f_this' = [f_this EXCEPT ![t] = NULL]
       ELSE /\ f_pc' = [f_pc EXCEPT ![t] = "inc"]
            /\ UNCHANGED <<f_word, f_cs, f_this>>
    /\ UNCHANGED <<m_vars, d_vars, f_dds, f_lot, is_dead_locked, waiting_on,
                   wait_start_time, current_wait_token, f_res, reg_order>>
    /\ F_History

\* The public try_lock(), called on its own.
F_try_lock(t, m) ==
    /\ F_Idle(t)
    /\ m \notin f_cs[t]
    /\ f_pc' = [f_pc EXCEPT ![t] = "idle"]
    /\ IF Fair_try_lock_ok(m)
       THEN /\ f_word' = [f_word EXCEPT ![m] = Fair_get_lock_word(t)]
            /\ f_cs' = [f_cs EXCEPT ![t] = @ \cup {m}]
       ELSE UNCHANGED <<f_word, f_cs>>
    /\ UNCHANGED <<m_vars, d_vars, f_dds, f_lot, is_dead_locked, waiting_on,
                   wait_start_time, current_wait_token, f_this, f_res,
                   reg_order>>
    /\ F_History

\* Faulty variant of Fair_may_register: a waiter registers on an unlocked word.
C4_Faulty_may_register(w) == TRUE

\* increment_num_waiters() admits the caller: the word is held.
Fair_may_register(w) == Fair_is_locked(w)

\* park(): increment_num_waiters(); false (PARKRES_RETRY) when the word is
\* unlocked, else the CAS to {holder, num_waiters + 1}.
F_increment_num_waiters(t) ==
    /\ f_pc[t] = "inc"
    /\ LET m == f_this[t] IN
       IF ~Fair_may_register(f_word[m])
       THEN /\ f_pc' = [f_pc EXCEPT ![t] = "try"]
            /\ UNCHANGED <<f_word, reg_order>>
       ELSE /\ f_word' = [f_word EXCEPT ![m] = Fair_increment_num_waiters(@)]
            /\ reg_order' = [reg_order EXCEPT ![m] = Append(@, t)]
            /\ f_pc' = [f_pc EXCEPT ![t] = IF f_dds THEN "ann_time" ELSE "park"]
    /\ UNCHANGED <<m_vars, d_vars, f_dds, f_lot, is_dead_locked, waiting_on,
                   wait_start_time, current_wait_token, f_this, f_res, f_cs>>
    /\ F_History

\* Clock::now(): later than every time point a thread or the detector holds.
Clock_now(t) ==
    1 + Max({wait_start_time[u] : u \in Threads \ {t}} \cup {latest_time, 0})

\* announce_wait(): wait_start_time = Clock::now()
F_announce_time(t) ==
    /\ f_pc[t] = "ann_time"
    /\ wait_start_time' = [wait_start_time EXCEPT ![t] = Clock_now(t)]
    /\ f_pc' = [f_pc EXCEPT ![t] = "ann_lock"]
    /\ UNCHANGED <<m_vars, d_vars, f_dds, f_word, f_lot, is_dead_locked,
                   waiting_on, current_wait_token, f_this, f_res, f_cs,
                   reg_order, cycle_seen>>

\* announce_wait(): waiting_on = lock
F_announce_lock(t) ==
    /\ f_pc[t] = "ann_lock"
    /\ waiting_on' = [waiting_on EXCEPT ![t] = f_this[t]]
    /\ f_pc' = [f_pc EXCEPT ![t] = "ann_token"]
    /\ UNCHANGED <<m_vars, d_vars, f_dds, f_word, f_lot, is_dead_locked,
                   wait_start_time, current_wait_token, f_this, f_res, f_cs,
                   reg_order, cycle_seen>>

\* announce_wait(): return ++current_wait_token
F_announce_token(t) ==
    /\ f_pc[t] = "ann_token"
    /\ current_wait_token' = [current_wait_token EXCEPT ![t] = @ + 1]
    /\ f_pc' = [f_pc EXCEPT ![t] = "park"]
    /\ UNCHANGED <<m_vars, d_vars, f_dds, f_word, f_lot, is_dead_locked,
                   waiting_on, wait_start_time, f_this, f_res, f_cs,
                   reg_order, cycle_seen>>

\* Faulty variant of Fair_park_validate: the predicate fails for a thread that
\* is not the holder.
C20_Faulty_park_validate(t, m) ==
    Fair_is_locked_by_me(f_word[m], t) /\ ~is_dead_locked[t]

\* The validate predicate of parkinglot.park: !is_locked_by_me() && !is_dead_locked
Fair_park_validate(t, m) ==
    ~Fair_is_locked_by_me(f_word[m], t) /\ ~is_dead_locked[t]

\* park(): parkinglot.park(this, waitdata, validate, {}): enqueue, or Skip.
F_park(t) ==
    /\ f_pc[t] = "park"
    /\ LET m == f_this[t] IN
       IF Fair_park_validate(t, m)
       THEN /\ f_lot' = [f_lot EXCEPT ![m] =
                            Append(@, [tid |-> t,
                                       wait_token |-> current_wait_token[t]])]
            /\ f_pc' = [f_pc EXCEPT ![t] = "parked"]
            /\ UNCHANGED f_res
       ELSE /\ f_res' = [f_res EXCEPT ![t] = "Skip"]
            /\ f_pc' = [f_pc EXCEPT ![t] = "denounce"]
            /\ UNCHANGED f_lot
    /\ UNCHANGED <<m_vars, d_vars, f_dds, f_word, is_dead_locked, waiting_on,
                   wait_start_time, current_wait_token, f_this, f_cs,
                   reg_order, cycle_seen>>

\* Faulty variant of Fair_denounce_wait: waiting_on is left as it was.
C18_Faulty_denounce_wait(wo, t) == wo

\* ThreadWaitInfo::denounce_wait(): waiting_on = nullptr, in deadlock-safe mode.
Fair_denounce_wait(wo, t) == IF f_dds THEN [wo EXCEPT ![t] = NULL] ELSE wo

\* park() after parkinglot.park returned: denounce_wait(), then by the result
\* either a decrement_num_waiters() is due (deadlocked, or Skip) or lock()
\* returns LOCKED.
F_denounce_wait(t) ==
    /\ f_pc[t] = "denounce"
    /\ waiting_on' = Fair_denounce_wait(waiting_on, t)
    /\ IF is_dead_locked[t] \/ f_res[t] = "Skip"
       THEN /\ f_pc' = [f_pc EXCEPT ![t] = "dec"]
            /\ UNCHANGED <<f_cs, f_this, f_res>>
       ELSE /\ f_pc' = [f_pc EXCEPT ![t] = "idle"]
            /\ f_cs' = [f_cs EXCEPT ![t] = @ \cup {f_this[t]}]
            /\ f_this' = [f_this EXCEPT ![t] = NULL]
            /\ f_res' = [f_res EXCEPT ![t] = "None"]
    /\ UNCHANGED <<m_vars, d_vars, f_dds, f_word, f_lot, is_dead_locked,
                   wait_start_time, current_wait_token, reg_order>>
    /\ F_History

\* decrement_num_waiters(), once per cause: `if (is_dead_locked)` in the park
\* lambda and `case Skip` after it.  Then PARKRES_DEADLOCKED when is_dead_locked
\* and the result was Unpark, PARKRES_LOCKED on Skip.
F_decrement_num_waiters(t) ==
    /\ f_pc[t] = "dec"
    /\ LET m == f_this[t]
           twice == is_dead_locked[t] /\ f_res[t] = "Skip"
           once == Fair_decrement_num_waiters(f_word[m])
       IN  /\ f_word' = [f_word EXCEPT ![m] =
                            IF twice THEN Fair_decrement_num_waiters(once)
                            ELSE once]
           /\ reg_order' = [reg_order EXCEPT ![m] = RemoveTid(@, t)]
           /\ IF f_res[t] = "Skip"
              THEN /\ f_pc' = [f_pc EXCEPT ![t] = "idle"]
                   /\ f_cs' = [f_cs EXCEPT ![t] = @ \cup {m}]
                   /\ f_this' = [f_this EXCEPT ![t] = NULL]
              ELSE /\ f_pc' = [f_pc EXCEPT ![t] = "dl"]
                   /\ UNCHANGED <<f_cs, f_this>>
    /\ is_dead_locked' = [is_dead_locked EXCEPT ![t] = FALSE]
    /\ f_res' = [f_res EXCEPT ![t] = "None"]
    /\ UNCHANGED <<m_vars, d_vars, f_dds, f_lot, waiting_on, wait_start_time,
                   current_wait_token>>
    /\ F_History

\* Faulty variant of Fair_unpark_pick: the last in the lot.
C3_Faulty_unpark_pick(q) == q[Len(q)]

\* The waiter unlock()'s unpark filter accepts: the first in the lot.
Fair_unpark_pick(q) == Head(q)

\* One iteration of unlock()'s loop by t on m.  With a waiter in the lot the
\* filter runs transfer_lock(waitdata.tid) and returns RemoveBreak; with
\* num_waiters == 0 the CAS to get_unlocked_word() succeeds; otherwise (a
\* registered waiter is not in the lot yet) the loop spins.
F_unlock_iteration(t, m) ==
    IF f_lot[m] # <<>> /\ Fair_has_waiters(f_word[m])
    THEN LET w == Fair_unpark_pick(f_lot[m]) IN
         /\ f_word' = [f_word EXCEPT ![m] = Fair_transfer_lock(@, w.tid)]
         /\ f_lot' = [f_lot EXCEPT ![m] = SelectSeq(@, LAMBDA x : x # w)]
         /\ reg_order' = [reg_order EXCEPT ![m] = RemoveTid(@, w.tid)]
         /\ f_pc' = [f_pc EXCEPT ![t] = "idle", ![w.tid] = "denounce"]
         /\ f_res' = [f_res EXCEPT ![w.tid] = "Unpark"]
         /\ f_this' = [f_this EXCEPT ![t] = NULL]
    ELSE IF ~Fair_has_waiters(f_word[m])
    THEN /\ f_word' = [f_word EXCEPT ![m] = Fair_get_unlocked_word]
         /\ f_pc' = [f_pc EXCEPT ![t] = "idle"]
         /\ f_this' = [f_this EXCEPT ![t] = NULL]
         /\ UNCHANGED <<f_lot, reg_order, f_res>>
    ELSE /\ f_pc' = [f_pc EXCEPT ![t] = "unlock"]
         /\ f_this' = [f_this EXCEPT ![t] = m]
         /\ UNCHANGED <<f_word, f_lot, reg_order, f_res>>

\* unlock() entered.
F_unlock(t, m) ==
    /\ F_Idle(t)
    /\ m \in f_cs[t]
    /\ f_cs' = [f_cs EXCEPT ![t] = @ \ {m}]
    /\ F_unlock_iteration(t, m)
    /\ UNCHANGED <<m_vars, d_vars, f_dds, is_dead_locked, waiting_on,
                   wait_start_time, current_wait_token>>
    /\ F_History

\* unlock(): the loop again after _mm_pause().
F_unlock_retry(t) ==
    /\ f_pc[t] = "unlock"
    /\ F_unlock_iteration(t, f_this[t])
    /\ UNCHANGED <<m_vars, d_vars, f_dds, is_dead_locked, waiting_on,
                   wait_start_time, current_wait_token, f_cs>>
    /\ F_History

F_Step(t) ==
    \/ F_lock_retry(t)
    \/ F_increment_num_waiters(t)
    \/ F_announce_time(t)
    \/ F_announce_lock(t)
    \/ F_announce_token(t)
    \/ F_park(t)
    \/ F_denounce_wait(t)
    \/ F_decrement_num_waiters(t)
    \/ F_unlock_retry(t)

\* ------------------------------------------------------------------------
\* Fair mutex: detect_deadlocks() and DeadlockDetector
\* ------------------------------------------------------------------------

EmptyMap == <<>>

D_Init ==
    /\ d_pc = "idle"
    /\ waiter_id = 0
    /\ d_lock = NULL
    /\ d_token = 0
    /\ waiters = EmptyMap
    /\ holders = EmptyMap
    /\ d_left = {}
    /\ lockcycle = EmptyMap
    /\ sel_left = {}
    /\ latest_time = 0
    /\ latest_waiter = INVALID_THREADID
    /\ num_deadlocks = 0
    /\ d_calls = 0
    /\ d_start_cycle = {}
    /\ d_flagged = {}

\* S is closed under "waits parked for a mutex held by": each of its threads is
\* in the lot of a mutex whose holder is another of its threads.
ParkedClosed(S) ==
    \A u \in S : /\ f_pc[u] = "parked"
                 /\ f_word[f_this[u]].holder \in S \ {u}

\* The waits <<tid, wait_token>> parked on a wait-for cycle: the threads of the
\* minimal closed sets.
ParkedCycle ==
    LET C == {t \in Threads :
                \E S \in SUBSET Threads :
                    /\ t \in S
                    /\ ParkedClosed(S)
                    /\ \A R \in SUBSET S : (R # {} /\ ParkedClosed(R)) => R = S}
    IN  {<<t, current_wait_token[t]>> : t \in C}

\* detect_deadlocks() called; run() begins with gather's clear().
D_detect_deadlocks ==
    /\ d_pc = "idle"
    /\ f_dds
    /\ d_calls < MaxDetect
    /\ d_calls' = d_calls + 1
    /\ num_deadlocks' = 0
    /\ waiters' = EmptyMap
    /\ holders' = EmptyMap
    /\ waiter_id' = 0
    /\ d_pc' = "g_lock"
    /\ d_start_cycle' = ParkedCycle
    /\ d_flagged' = {}
    /\ UNCHANGED <<m_vars, f_vars, d_lock, d_token, d_left, lockcycle,
                   sel_left, latest_time, latest_waiter>>

\* gather: lock = waiter_info.waiting_on.load()
D_gather_lock ==
    /\ d_pc = "g_lock"
    /\ d_lock' = waiting_on[waiter_id]
    /\ d_pc' = "g_token"
    /\ UNCHANGED <<m_vars, f_vars, waiter_id, d_token, waiters, holders,
                   d_left, lockcycle, sel_left, latest_time, latest_waiter,
                   num_deadlocks, d_calls, d_start_cycle, d_flagged>>

\* gather: wait_token = waiter_info.current_wait_token.load(); the slot is
\* done when lock is null.
D_gather_token ==
    /\ d_pc = "g_token"
    /\ IF d_lock # NULL
       THEN /\ d_token' = current_wait_token[waiter_id]
            /\ d_pc' = "g_scan"
            /\ UNCHANGED <<waiter_id, d_lock, d_left>>
       ELSE /\ d_token' = 0
            /\ d_lock' = NULL
            /\ IF waiter_id + 1 < MAX_THREADS
               THEN /\ waiter_id' = waiter_id + 1
                    /\ d_pc' = "g_lock"
                    /\ UNCHANGED d_left
               ELSE /\ waiter_id' = 0
                    /\ d_pc' = "run"
                    /\ d_left' = DOMAIN waiters
    /\ UNCHANGED <<m_vars, f_vars, waiters, holders, lockcycle, sel_left,
                   latest_time, latest_waiter, num_deadlocks, d_calls,
                   d_start_cycle, d_flagged>>

\* gather: parkinglot.unpark(lock, ...) looks for waitdata.tid == waiter_id;
\* found under a held word, it records the waiter and the holder.
D_gather_scan ==
    /\ d_pc = "g_scan"
    /\ IF waiter_id \in F_Parked(d_lock) /\ Fair_is_locked(f_word[d_lock])
       THEN /\ waiters' = (waiter_id :> [lock |-> d_lock, wait_token |-> d_token])
                              @@ waiters
            /\ holders' = (d_lock :> f_word[d_lock].holder) @@ holders
       ELSE UNCHANGED <<waiters, holders>>
    /\ d_lock' = NULL
    /\ d_token' = 0
    /\ IF waiter_id + 1 < MAX_THREADS
       THEN /\ waiter_id' = waiter_id + 1
            /\ d_pc' = "g_lock"
            /\ UNCHANGED d_left
       ELSE /\ waiter_id' = 0
            /\ d_pc' = "run"
            /\ d_left' = DOMAIN waiters'
    /\ UNCHANGED <<m_vars, f_vars, lockcycle, sel_left, latest_time,
                   latest_waiter, num_deadlocks, d_calls, d_start_cycle,
                   d_flagged>>

\* operator[] of the two maps: the value, or the value-initialised one that
\* operator[] inserts for an absent key.
Holders_at(hs, lock) == IF lock \in DOMAIN hs THEN hs[lock] ELSE 0

Waiters_at(ws, id) ==
    IF id \in DOMAIN ws THEN ws[id] ELSE [lock |-> NULL, wait_token |-> 0]

RECURSIVE LockCycleWalk(_, _, _, _)
LockCycleWalk(lc, lock, hs, ws) ==
    LET waiterid == Holders_at(hs, lock) IN
    IF waiterid \notin DOMAIN ws
    THEN EmptyMap
    ELSE LET next == ws[waiterid].lock IN
         IF waiterid \in DOMAIN lc
         THEN lc
         ELSE LockCycleWalk((waiterid :> next) @@ lc, next, hs, ws)

\* detect_lock_cycle(waiterid, lock): the waiters walked, or empty.
detect_lock_cycle(waiterid, lock) ==
    LockCycleWalk((waiterid :> lock), lock, holders, waiters)

\* run(): one turn of `for (auto &waiter : waiters)`, in the map's order, up
\* to select_waiter; with no waiter left run() returns false and
\* detect_deadlocks() returns num_deadlocks.
D_run ==
    /\ d_pc = "run"
    /\ IF d_left = {}
       THEN /\ d_pc' = "idle"
            /\ waiters' = EmptyMap
            /\ holders' = EmptyMap
            /\ UNCHANGED <<d_left, lockcycle, sel_left>>
       ELSE \E w \in d_left :
              LET lock == waiters[w].lock
                  lc == detect_lock_cycle(w, lock)
              IN  /\ d_left' = d_left \ {w}
                  /\ holders' = (lock :> Holders_at(holders, lock)) @@ holders
                  /\ UNCHANGED waiters
                  /\ IF DOMAIN lc = {}
                     THEN UNCHANGED <<d_pc, lockcycle, sel_left>>
                     ELSE /\ d_pc' = "select"
                          /\ lockcycle' = lc
                          /\ sel_left' = DOMAIN lc
    /\ latest_time' = 0
    /\ latest_waiter' = INVALID_THREADID
    /\ UNCHANGED <<m_vars, f_vars, waiter_id, d_lock, d_token, num_deadlocks,
                   d_calls, d_start_cycle, d_flagged>>

\* select_waiter: lock = waiter_info.waiting_on for one member.  The index
\* INVALID_THREADID is past the end of global_wait_info: any value is read.
D_select_lock ==
    /\ d_pc = "select"
    /\ \E x \in sel_left :
          /\ waiter_id' = x
          /\ IF x \in Threads
             THEN d_lock' = waiting_on[x]
             ELSE d_lock' \in Mutexes \cup {NULL}
    /\ d_pc' = "sel_time"
    /\ UNCHANGED <<m_vars, f_vars, d_token, waiters, holders, d_left,
                   lockcycle, sel_left, latest_time, latest_waiter,
                   num_deadlocks, d_calls, d_start_cycle, d_flagged>>

\* select_waiter: wait_start_time.load() for that member, the latest so far,
\* and the early return of INVALID_THREADID on a changed waiting_on.
D_select_time ==
    /\ d_pc = "sel_time"
    /\ \E time \in IF waiter_id \in Threads
                   THEN {wait_start_time[waiter_id]}
                   ELSE 0 .. Clock_now(MAX_THREADS) :
          LET later == latest_time < time
              mismatch == lockcycle[waiter_id] # d_lock
              done == mismatch \/ sel_left = {waiter_id}
          IN  /\ latest_time' = IF done THEN 0
                                ELSE IF later THEN time ELSE latest_time
              /\ latest_waiter' = IF mismatch THEN INVALID_THREADID
                                  ELSE IF later THEN waiter_id
                                  ELSE latest_waiter
              /\ sel_left' = IF done THEN {} ELSE sel_left \ {waiter_id}
              /\ d_pc' = IF done THEN "verify" ELSE "select"
              /\ lockcycle' = IF done THEN EmptyMap ELSE lockcycle
    /\ waiter_id' = 0
    /\ d_lock' = NULL
    /\ UNCHANGED <<m_vars, f_vars, d_token, waiters, holders, d_left,
                   num_deadlocks, d_calls, d_start_cycle, d_flagged>>

\* Faulty variant of Fair_is_victim: the wait token is not compared.
C19_Faulty_is_victim(x, waiter, wait_token) == x.tid = waiter

\* The waitdata verify_lock_cycle's unpark filter accepts.
Fair_is_victim(x, waiter, wait_token) ==
    x.tid = waiter /\ x.wait_token = wait_token

\* verify_lock_cycle after select_waiter: waiters[waiter] (inserted when
\* absent), then parkinglot.unpark(lock, ...) sets *is_dead_locked of the
\* matching waitdata and removes it; run() returns true and detect_deadlocks
\* counts and runs again, or the for loop of run() goes on.
D_verify_lock_cycle ==
    /\ d_pc = "verify"
    /\ LET waiter == latest_waiter
           info == Waiters_at(waiters, waiter)
           q == IF info.lock = NULL THEN <<>> ELSE f_lot[info.lock]
           hit == {i \in 1 .. Len(q) :
                     Fair_is_victim(q[i], waiter, info.wait_token)}
       IN  IF hit # {}
           THEN /\ is_dead_locked' = [is_dead_locked EXCEPT ![waiter] = TRUE]
                /\ f_lot' = [f_lot EXCEPT ![info.lock] =
                                SelectSeq(@, LAMBDA x :
                                    ~Fair_is_victim(x, waiter, info.wait_token))]
                /\ f_pc' = [f_pc EXCEPT ![waiter] = "denounce"]
                /\ f_res' = [f_res EXCEPT ![waiter] = "Unpark"]
                /\ num_deadlocks' = num_deadlocks + 1
                /\ d_flagged' = d_flagged \cup {<<waiter, info.wait_token>>}
                /\ waiters' = EmptyMap
                /\ holders' = EmptyMap
                /\ d_left' = {}
                /\ d_pc' = "g_lock"
           ELSE /\ waiters' = (waiter :> info) @@ waiters
                /\ \/ d_left' = d_left
                   \/ /\ waiter \notin DOMAIN waiters
                      /\ d_left' = d_left \cup {waiter}
                /\ d_pc' = "run"
                /\ UNCHANGED <<is_dead_locked, f_lot, f_pc, f_res,
                               num_deadlocks, d_flagged, holders>>
    /\ latest_waiter' = INVALID_THREADID
    /\ UNCHANGED <<m_vars, f_dds, f_word, waiting_on, wait_start_time,
                   current_wait_token, f_this, f_cs, reg_order, cycle_seen,
                   waiter_id, d_lock, d_token, lockcycle, sel_left,
                   latest_time, d_calls, d_start_cycle>>

D_Step ==
    \/ D_gather_lock
    \/ D_gather_token
    \/ D_gather_scan
    \/ D_run
    \/ D_select_lock
    \/ D_select_time
    \/ D_verify_lock_cycle

F_Next ==
    \/ \E t \in Threads : \E m \in Mutexes :
          F_lock(t, m) \/ F_try_lock(t, m) \/ F_unlock(t, m)
    \/ \E t \in Threads : F_Step(t)
    \/ D_detect_deadlocks
    \/ D_Step

\* The calls on one fair mutex.
F_Next1 ==
    \/ \E t \in Threads : F_lock(t, 1) \/ F_try_lock(t, 1) \/ F_unlock(t, 1)
    \/ \E t \in Threads : F_Step(t)
    \/ D_detect_deadlocks
    \/ D_Step

FairInit == M_Init /\ m_dds = FALSE /\ F_Init /\ D_Init

\* Three threads on one fair mutex, either mode, and one caller of
\* detect_deadlocks().
SpecFair == FairInit /\ [][F_Next1]_vars

\* Clients that can deadlock on the two mutexes: thread 1 takes mutex 1 and,
\* holding it, mutex 2; thread 2 takes mutex 2 and, holding it, mutex 1;
\* thread 0 takes mutex 2 only.
Client_may_lock(t, m) ==
    \/ t = 0 /\ m = 2
    \/ t = 1 /\ (m = 1 \/ 1 \in f_cs[1])
    \/ t = 2 /\ (m = 2 \/ 2 \in f_cs[2])

\* Threads 1 and 2 release in the reverse order of taking; thread 0 keeps its
\* mutex.
Client_may_unlock(t, m) ==
    \/ t = 1 /\ (m = 2 \/ 2 \notin f_cs[1])
    \/ t = 2 /\ (m = 1 \/ 1 \notin f_cs[2])

F_NextCycle ==
    \/ \E t \in Threads : \E m \in Mutexes :
          \/ Client_may_lock(t, m) /\ F_lock(t, m)
          \/ Client_may_unlock(t, m) /\ F_unlock(t, m)
    \/ \E t \in Threads : F_Step(t)
    \/ D_detect_deadlocks
    \/ D_Step

\* The deadlock-safe fair mutex under those clients and one caller of
\* detect_deadlocks().
FairCycleInit == FairInit /\ f_dds = TRUE

SpecFairCycle == FairCycleInit /\ [][F_NextCycle]_vars

\* lock() and unlock() on one fair mutex, no detector.
F_NextLive ==
    \E t \in Threads :
        \/ F_lock(t, 1)
        \/ F_unlock(t, 1)
        \/ F_lock_retry(t)
        \/ F_increment_num_waiters(t)
        \/ F_announce_time(t)
        \/ F_announce_lock(t)
        \/ F_announce_token(t)
        \/ F_park(t)
        \/ F_denounce_wait(t)
        \/ F_unlock_retry(t)

\* The scheduler starves no thread, and every holder calls unlock().  Calling
\* lock() is the client's choice and has no fairness.
F_Fairness ==
    \A t \in Threads : WF_vars(F_Step(t)) /\ WF_vars(F_unlock(t, 1))

SpecFairLive == FairInit /\ [][F_NextLive]_vars /\ F_Fairness

M_Step(t) ==
    \/ M_lock_retry(t)
    \/ M_uncontended_path_available(t)
    \/ M_try_lock_contended(t)
    \/ M_announce_wait(t)
    \/ M_park(t)
    \/ M_detect_load(t)
    \/ M_detect_follow(t)
    \/ M_verify_lock(t)
    \/ M_verify_check(t)
    \/ M_verify_confirm(t)
    \/ M_denounce_wait(t)
    \/ M_unpark(t)

\* The clients of the mutexes: every thread calls try_lock() and unlock() on
\* both mutexes and lock() on mutex 1; threads 0 and 1 call lock() on mutex 2
\* as well.
M_Locks(t, m) == t < 2 \/ m = 1

M_Next ==
    \E t \in Threads :
        \/ \E m \in Mutexes :
              (M_Locks(t, m) /\ M_lock(t, m)) \/ M_try_lock(t, m) \/ M_unlock(t, m)
        \/ M_park_timeout(t)
        \/ M_Step(t)

MutexInit == M_Init /\ F_Init /\ f_dds = FALSE /\ D_Init

SpecMutex == MutexInit /\ [][M_Next]_vars

\* One mutex, used by every thread: the contention runs of the standard mutex.
M_Next1 ==
    \E t \in Threads :
        \/ M_lock(t, 1)
        \/ M_try_lock(t, 1)
        \/ M_unlock(t, 1)
        \/ M_park_timeout(t)
        \/ M_Step(t)

\* The scheduler starves no thread (weak fairness of each thread's own steps),
\* park_for's timeout fires, and every holder calls unlock().  Calling lock()
\* or try_lock() is the client's choice and has no fairness.
M_Fairness ==
    \A t \in Threads :
        /\ WF_vars(M_Step(t))
        /\ WF_vars(M_park_timeout(t))
        /\ WF_vars(M_unlock(t, 1))

SpecMutexLive == MutexInit /\ [][M_Next1]_vars /\ M_Fairness

\* The two deadlock-safe variants, one of them per run: the standard mutex on
\* one mutex, or the fair mutex on one mutex with a caller of
\* detect_deadlocks().
SafeInit == M_Init /\ F_Init /\ D_Init /\ m_dds # f_dds

SafeNext ==
    \/ m_dds /\ M_Next1
    \/ f_dds /\ F_Next1

SpecSafe == SafeInit /\ [][SafeNext]_vars

\* ------------------------------------------------------------------------
\* Claims
\* ------------------------------------------------------------------------

\* C1: standard mutex, both modes: at most one thread is between a lock() that
\* returned LOCKED (or a try_lock() that returned true) and its unlock().
C1_MutualExclusion ==
    \A m \in Mutexes : Cardinality({t \in Threads : m \in m_cs[t]}) <= 1

\* Deadlock-safe mode: a thread is in its critical section on a contended
\* word and another is parked on the mutex.
C1_Witness ==
    \E t, u \in Threads :
        /\ m_dds
        /\ 1 \in m_cs[t]
        /\ m_pc[u] = "parked" /\ m_this[u] = 1
        /\ m_word[1] = Mutex_get_contented_word(m_dds, t)

\* A thread inside lock_contended() and not asleep in the lot.
M_AwakeInLockContended(t) ==
    m_pc[t] \in {"lc_try", "announce", "park", "denounce", "cd_load", "cd_read",
                 "v_lock", "v_check", "v_denounce"}

\* A mutex with a parked thread that becomes unlocked is eventually acquired.
C5_a ==
    \A m \in Mutexes :
        (m_lot[m] # <<>> /\ m_word[m] = Mutex_get_unlocked_word(m_dds))
            ~> (m_word[m] # Mutex_get_unlocked_word(m_dds))

\* Lean mode: no thread stays parked forever while its mutex is unlocked and
\* no thread is awake in lock_contended().
C5_b ==
    \A t \in Threads :
        []<>~(/\ ~m_dds
              /\ m_pc[t] = "parked"
              /\ m_word[m_this[t]] = Mutex_get_unlocked_word(m_dds)
              /\ \A u \in Threads : ~M_AwakeInLockContended(u))

\* C5: standard mutex, no lost wakeup, under weak fairness and with every
\* holder calling unlock(): once a thread is parked on a mutex that is
\* unlocked, some thread acquires it; and in lean mode no thread stays parked
\* forever on an unlocked mutex with nobody awake in lock_contended().
C5_NoLostWakeup == C5_a /\ C5_b

\* Lean mode: a thread is parked, the holder's unlock() has stored the
\* unlocked word and its unpark is due.
C5_Witness ==
    \E t, u \in Threads :
        /\ ~m_dds
        /\ m_pc[t] = "parked" /\ m_this[t] = 1
        /\ m_pc[u] = "unpark" /\ m_this[u] = 1
        /\ m_word[1] = Mutex_get_unlocked_word(m_dds)

\* C9: a lock() of the deadlock-safe standard mutex never returns DEADLOCKED
\* while the mutex it waits on is held by a thread that is not waiting on
\* anything (outside every call).
C9_NoFalseDeadlock ==
    [][\A t \in Threads :
          (m_pc[t] # "dl" /\ m_pc'[t] = "dl") =>
              ~\E h \in Threads : m_this[t] \in m_cs[h] /\ M_Idle(h)]_vars

\* ------------------------------------------------------------------------
\* Fair mutex claims
\* ------------------------------------------------------------------------

\* A thread unlock() has handed the mutex to and that has not yet returned
\* from lock().
F_HandedOff(t) ==
    f_pc[t] = "denounce" /\ f_res[t] = "Unpark" /\ ~is_dead_locked[t]

\* C2: fair mutex, both modes: at most one thread is in its critical section
\* on a mutex, and the holder field of the word is that thread's id, also
\* during hand-off and while the detector wakes victims.
C2_FairMutualExclusion ==
    \A m \in Mutexes :
        /\ \A t, u \in Threads : (m \in f_cs[t] /\ m \in f_cs[u]) => t = u
        /\ \A t \in Threads : m \in f_cs[t] => f_word[m].holder = t

\* A thread is in its critical section while the detector, still running, has
\* flagged a waiter of the mutex and another waiter is registered.
C2_Witness ==
    \E t, u \in Threads :
        /\ t # u
        /\ 1 \in f_cs[t]
        /\ f_word[1].num_waiters > 0
        /\ is_dead_locked[u] /\ f_this[u] = 1
        /\ d_pc # "idle"

\* The registered waiters of m that no detector has flagged, in the order of
\* their increment_num_waiters CAS.
F_CasOrder(m) == SelectSeq(reg_order[m], LAMBDA t : ~is_dead_locked[t])

\* unlock() hands m to t in this step.
F_HandOff(m, t) ==
    /\ f_pc[t] = "parked" /\ f_this[t] = m
    /\ f_word[m].holder # t
    /\ f_word'[m].holder = t

\* C3 as stated: waiters acquire the mutex in the order of their
\* increment_num_waiters CAS: every hand-off goes to the earliest registered
\* waiter that is not a deadlock victim.
C3_FifoByCasOrder ==
    [][\A m \in Mutexes : \A t \in Threads :
          F_HandOff(m, t) => t = Head(F_CasOrder(m))]_vars

\* C3, amended: waiters acquire the mutex in the order of their enqueue in the
\* parking lot: every hand-off goes to the waiter that has been in the lot of
\* the mutex the longest.
C3_FifoByEnqueueOrder ==
    [][\A m \in Mutexes : \A t \in Threads :
          F_HandOff(m, t) => t = Head(f_lot[m]).tid]_vars

\* Two waiters of a lean fair mutex are parked in the opposite order of their
\* increment_num_waiters CAS.
C3_Witness ==
    /\ ~f_dds
    /\ Len(f_lot[1]) = 2
    /\ Len(reg_order[1]) = 2
    /\ f_lot[1][1].tid = reg_order[1][2]
    /\ f_lot[1][2].tid = reg_order[1][1]

\* C4: no barging: num_waiters > 0 implies a valid holder, and a thread the
\* mutex was handed to finds itself the holder when it resumes: no try_lock()
\* CAS succeeded in between.
C4_NoBarging ==
    \A m \in Mutexes :
        /\ Fair_has_waiters(f_word[m]) => Fair_is_locked(f_word[m])
        /\ \A t \in Threads :
              (F_HandedOff(t) /\ f_this[t] = m) => f_word[m].holder = t

\* A thread has been handed the mutex and has not resumed, a second waiter is
\* registered, and a third thread calls try_lock().
C4_Witness ==
    \E t, u \in Threads :
        /\ F_HandedOff(t) /\ f_this[t] = 1
        /\ f_word[1].num_waiters > 0
        /\ u # t /\ f_pc[u] = "inc" /\ f_this[u] = 1

\* C7: num_waiters is the number of threads registered by
\* increment_num_waiters and neither deregistered by decrement_num_waiters nor
\* named by transfer_lock; every thread in the lot is among them; the counter
\* does not wrap.
C7_CounterConsistency ==
    \A m \in Mutexes :
        /\ f_word[m].num_waiters = Len(reg_order[m])
        /\ F_Parked(m) \subseteq {reg_order[m][i] : i \in 1 .. Len(reg_order[m])}
        /\ f_word[m].num_waiters <= MAX_THREADS

\* The detector has removed a victim from the lot, and unlock() has handed the
\* mutex to another waiter before the victim's decrement_num_waiters.
C7_Witness ==
    \E t, u \in Threads :
        /\ is_dead_locked[t] /\ f_pc[t] = "dec" /\ f_this[t] = 1
        /\ F_HandedOff(u) /\ f_this[u] = 1
        /\ f_word[1].num_waiters = 1

\* C8: when no wait-for cycle has ever existed, the detector flags no waiter,
\* detect_deadlocks() counts none and no lock() returns DEADLOCKED.
C8_NoCycleNoDeadlock ==
    (\/ num_deadlocks > 0
     \/ \E t \in Threads : is_dead_locked[t] \/ f_pc[t] = "dl")
        => cycle_seen


\* C6: starvation freedom of the fair mutex under weak fairness, with every
\* holder calling unlock() and no deadlock: every lock() under way ends with the
\* caller in its critical section, and every unlock() returns.
C6_StarvationFree ==
    /\ \A t \in Threads : F_InLock(t) ~> (1 \in f_cs[t])
    /\ \A t \in Threads : (f_pc[t] = "unlock") ~> F_Idle(t)

\* C10: a call of detect_deadlocks() that begins with the threads of a wait-for
\* cycle parked flags exactly one wait of that cycle: never two, and one by the
\* time it returns.
C10_OneVictimPerCycle ==
    d_start_cycle # {} =>
        /\ Cardinality(d_flagged \cap d_start_cycle) <= 1
        /\ d_pc = "idle" => Cardinality(d_flagged \cap d_start_cycle) = 1

\* ------------------------------------------------------------------------
\* Standard mutex claims, continued
\* ------------------------------------------------------------------------

\* C11: of the threads of one wait-for cycle over deadlock-safe standard
\* mutexes, no two have the lock() that put them on the cycle return
\* DEADLOCKED: when one of them does, none has before.
C11_OneVictimPerCycle ==
    [][\A t \in Threads :
          (m_pc[t] # "dl" /\ m_pc'[t] = "dl" /\ t \in m_cyc) =>
              m_victims = {}]_vars

\* ------------------------------------------------------------------------
\* Fair mutex claims, continued
\* ------------------------------------------------------------------------

\* C12: a wait the detector flags is parked on a wait-for cycle itself, and
\* no wait of that cycle started later than it.
C12_VictimOnCycle ==
    [][\A t \in Threads :
          (~is_dead_locked[t] /\ is_dead_locked'[t]) =>
              /\ <<t, current_wait_token[t]>> \in ParkedCycle
              /\ \A w \in ParkedCycle :
                    wait_start_time[w[1]] <= wait_start_time[t]]_vars

\* C13: lock() returns LOCKED (the caller enters its critical section) only
\* with the caller as holder of the word; it returns DEADLOCKED only with
\* another holder, by a step that leaves the holder field as it was, with the
\* caller's registration in num_waiters withdrawn and its waiting_on null;
\* the caller's increment_num_waiters and decrement_num_waiters never change
\* the holder; and park() yields PARKRES_RETRY only to a caller that is not
\* the holder.
C13_ResultMatchesOwnership ==
    [][\A t \in Threads :
          /\ \A m \in f_cs'[t] \ f_cs[t] : f_word'[m].holder = t
          /\ (f_pc[t] # "dl" /\ f_pc'[t] = "dl") =>
                LET m == f_this[t] IN
                /\ f_word'[m].holder # t
                /\ f_word'[m].holder = f_word[m].holder
                /\ f_word'[m].num_waiters = f_word[m].num_waiters - 1
                /\ \A i \in 1 .. Len(reg_order'[m]) : reg_order'[m][i] # t
                /\ waiting_on'[t] = NULL
          /\ (f_pc[t] \in {"inc", "dec"} /\ f_pc'[t] # f_pc[t]) =>
                f_word'[f_this[t]].holder = f_word[f_this[t]].holder
          /\ (f_pc[t] = "inc" /\ f_pc'[t] = "try") =>
                f_word'[f_this[t]].holder # t]_vars

\* A lock() has returned DEADLOCKED while another thread is in its critical
\* section and a third has been handed nothing: it is still registered.
C13_Witness ==
    \E t, h \in Threads :
        /\ f_pc[t] = "dl" /\ f_this[t] = 1
        /\ h # t /\ 1 \in f_cs[h]
        /\ f_word[1].holder = h
        /\ f_word[1].num_waiters > 0

\* ------------------------------------------------------------------------
\* Standard mutex claims: the contention mark
\* ------------------------------------------------------------------------

\* The CONTENDED state of a word as the design describes it: the LS_CONTENTED
\* value in lean mode, the high (M_CONTENDED_MASK) bit set in deadlock-safe
\* mode.
ContentionMarked(dds, w) ==
    IF dds THEN (w \div M_CONTENDED_MASK) % 2 = 1 ELSE w = LS_CONTENTED

\* C14: unlock() stores the unlocked word and calls unpark if and only if the
\* word it replaced was in the CONTENDED state; that unpark removes at most
\* one waiter.
C14_UnparkIffContended ==
    [][\A t \in Threads : \A m \in Mutexes :
          /\ (m \in m_cs[t] /\ m \notin m_cs'[t]) =>
                /\ m_word'[m] = Mutex_get_unlocked_word(m_dds)
                /\ (m_pc'[t] = "unpark") <=> ContentionMarked(m_dds, m_word[m])
          /\ m_pc[t] = "unpark" /\ m_pc'[t] # "unpark" =>
                \A k \in Mutexes : Len(m_lot'[k]) >= Len(m_lot[k]) - 1]_vars

\* C15: a thread is enqueued in the parking lot of a mutex only while the
\* word of that mutex is held with the contention mark set; never while it is
\* unlocked.
C15_ParkOnlyOnContended ==
    [][\A m \in Mutexes :
          Len(m_lot'[m]) > Len(m_lot[m]) =>
              /\ Mutex_is_locked(m_dds, m_word[m])
              /\ ContentionMarked(m_dds, m_word[m])]_vars

\* C16: in deadlock-safe mode the bits of a locked word below the contention
\* bit are the id of the thread in the critical section of the mutex.
C16_WordKeepsHolder ==
    m_dds =>
        \A m \in Mutexes :
            Mutex_is_locked(m_dds, m_word[m]) =>
                \E t \in Threads :
                    /\ m \in m_cs[t]
                    /\ Mutex_as_uncontented_word(m_dds, m_word[m]) = t

\* ------------------------------------------------------------------------
\* Fair mutex claims: hand-off, announcements, tokens, Skip
\* ------------------------------------------------------------------------

\* t ends a call of unlock() on m in this step.
F_Unlocks(t, m) ==
    \/ m \in f_cs[t] /\ m \notin f_cs'[t] /\ f_pc'[t] = "idle"
    \/ f_pc[t] = "unlock" /\ f_this[t] = m /\ f_pc'[t] = "idle"

\* C17: an unlock() that finds a waiter in the lot hands the mutex to the
\* waiter that entered the lot first: in one step holder becomes that waiter,
\* num_waiters drops by exactly 1, the waiter leaves the lot and resumes with
\* Unpark, already the holder; and the unlocked word is published only with
\* num_waiters = 0.
C17_HandOffStep ==
    [][\A m \in Mutexes :
          /\ \A t \in Threads :
                (F_Unlocks(t, m) /\ f_lot[m] # <<>>) =>
                    LET w == Head(f_lot[m]).tid IN
                    /\ f_word'[m].holder = w
                    /\ f_word'[m].num_waiters = f_word[m].num_waiters - 1
                    /\ f_lot'[m] = Tail(f_lot[m])
                    /\ f_pc'[w] = "denounce" /\ f_res'[w] = "Unpark"
          /\ (f_word'[m] = Fair_get_unlocked_word /\ f_word[m] # f_word'[m]) =>
                /\ f_word[m].num_waiters = 0
                /\ f_lot[m] = <<>>]_vars

\* unlock() has handed the mutex to the first of two parked waiters; the
\* second is still in the lot and counted.
C17_Witness ==
    \E t \in Threads :
        /\ F_HandedOff(t) /\ f_this[t] = 1
        /\ f_word[1] = [holder |-> t, num_waiters |-> 1]
        /\ Len(f_lot[1]) = 1
        /\ reg_order[1] = <<f_lot[1][1].tid>>

\* Fair mutex: t has announced its wait and is about to park or is parked.
F_AboutToParkOrParked(t) == f_pc[t] \in {"ann_token", "park", "parked"}

\* Standard mutex: t has announced its wait and is about to park or is parked.
M_AboutToParkOrParked(t) == m_pc[t] \in {"park", "parked"}

\* The slots are written by their owners only: a slot changes in a step of
\* its thread, and a thread outside lock() has a null slot.
WaitSlotsOwned ==
    \A t \in Threads :
        /\ waiting_on'[t] # waiting_on[t] => f_pc'[t] # f_pc[t]
        /\ thread_waiting_on'[t] # thread_waiting_on[t] => m_pc'[t] # m_pc[t]
        /\ F_Idle(t)' => waiting_on'[t] = NULL
        /\ ~M_InLock(t)' => thread_waiting_on'[t] = NULL

\* C18 as stated: a slot is non-null only while its thread is about to park
\* or is parked on that mutex; only the owner writes it; it is null once
\* lock() has returned.
C18_AnnouncedOnlyParking ==
    [][/\ WaitSlotsOwned
       /\ \A t \in Threads :
             /\ waiting_on'[t] # NULL =>
                   (F_AboutToParkOrParked(t)' /\ f_this'[t] = waiting_on'[t])
             /\ thread_waiting_on'[t] # NULL =>
                   (M_AboutToParkOrParked(t)'
                    /\ m_this'[t] = thread_waiting_on'[t])]_vars

\* C18, amended: a slot is non-null only between its thread's announce_wait
\* and denounce_wait inside lock() on that mutex: about to park, parked, or
\* woken (handed the mutex, flagged by the detector, or timed out and in
\* check_deadlock) and not yet at denounce_wait; only the owner writes it; it
\* is null once lock() has returned.
C18_AnnouncedUntilDenounce ==
    [][/\ WaitSlotsOwned
       /\ \A t \in Threads :
             /\ waiting_on'[t] # NULL =>
                   /\ F_AboutToParkOrParked(t)' \/ f_pc'[t] = "denounce"
                   /\ f_this'[t] = waiting_on'[t]
             /\ thread_waiting_on'[t] # NULL =>
                   /\ \/ M_AboutToParkOrParked(t)'
                      \/ m_pc'[t] \in {"cd_load", "cd_read", "v_lock", "v_check",
                                       "v_denounce", "denounce"}
                   /\ m_this'[t] = thread_waiting_on'[t]]_vars

\* The fair mutex has been handed to a thread that has resumed from the lot
\* and whose waiting_on still names the mutex.
C18_Witness ==
    \E t \in Threads :
        /\ F_HandedOff(t)
        /\ waiting_on[t] = 1
        /\ f_word[1].holder = t

\* C19: a thread's wait token changes only by its own ++current_wait_token,
\* so it is strictly greater in each wait episode than in the one before;
\* a wait in the lot carries its thread's current token; a snapshot of the
\* detector never holds a token its thread has not drawn yet; and the
\* detector sets is_dead_locked only on a parked wait whose token is the one
\* its snapshot of that thread holds, never on a later wait of the thread.
C19_TokenReplayProtection ==
    [][/\ \A t \in Threads :
             /\ current_wait_token'[t] # current_wait_token[t] =>
                   /\ current_wait_token'[t] = current_wait_token[t] + 1
                   /\ f_pc[t] = "ann_token"
             /\ (~is_dead_locked[t] /\ is_dead_locked'[t]) =>
                   /\ f_pc[t] = "parked"
                   /\ t = latest_waiter
                   /\ t \in DOMAIN waiters
                   /\ waiters[t].wait_token = current_wait_token[t]
       /\ \A m \in Mutexes : \A i \in 1 .. Len(f_lot'[m]) :
             f_lot'[m][i].wait_token = current_wait_token'[f_lot'[m][i].tid]
       /\ \A t \in DOMAIN waiters' \cap Threads :
             waiters'[t].wait_token <= current_wait_token'[t]]_vars

\* verify_lock_cycle is about to look for a thread that is parked in a later
\* wait than the one the detector's snapshot of it holds.
C19_Witness ==
    \E t \in Threads :
        /\ d_pc = "verify"
        /\ latest_waiter = t
        /\ t \in DOMAIN waiters
        /\ f_pc[t] = "parked"
        /\ waiters[t].lock = f_this[t]
        /\ waiters[t].wait_token < current_wait_token[t]

\* C20: callers of lock() do not hold the mutex, and for them the validate
\* predicate of parkinglot.park is true when park() reaches it: the thread is
\* enqueued, park never returns Skip, and no thread is in the Skip branch.
C20_ParkNeverSkips ==
    [][\A t \in Threads :
          /\ (f_pc[t] = "park" /\ f_pc'[t] # "park") =>
                /\ Fair_park_validate(t, f_this[t])
                /\ f_pc'[t] = "parked"
                /\ t \in F_Parked(f_this[t])'
          /\ f_res'[t] # "Skip"]_vars

\* A registered thread is about to call parkinglot.park while the mutex has
\* just been handed to another waiter, which has not resumed yet.
C20_Witness ==
    \E t, u \in Threads :
        /\ f_pc[t] = "park" /\ f_this[t] = 1
        /\ F_HandedOff(u) /\ f_this[u] = 1
        /\ reg_order[1] = <<t>>
        /\ f_word[1] = [holder |-> u, num_waiters |-> 1]

====
